---- MODULE Spec2Model ----
(***************************************************************************)
(* A model of package csvdata (csvdata.go): NewReadIter binds the declared *)
(* fields of a user struct to the columns of a header row, and Get decodes *)
(* one row at a time into that struct.                                     *)
(*                                                                         *)
(* A text (Go string) is a sequence of one-character strings.  A row is a  *)
(* sequence of texts.  Column indices are 0-based as in the Go code; the   *)
(* element at Go index ci of a slice s is s[ci + 1] here.                  *)
(***************************************************************************)
EXTENDS Integers, Sequences, FiniteSets, TLC

VARIABLES
    pc,        \* "start": before NewReadIter; "ready": a *ReadIter exists;
               \* "failed": NewReadIter returned (nil, err); "panicked": a
               \* run-time panic unwound Get
    decl,      \* the declared fields of the struct ps points to (reflect.Type)
    rec,       \* the target record *ps: one value per declared field
    Headers,   \* ReadIter.Headers
    Error,     \* ReadIter.Error
    Line,      \* ReadIter.Line
    Column,    \* ReadIter.Column
    kinds,     \* ReadIter.kinds
    tags,      \* ReadIter.tags
    fields,    \* ReadIter.fields: the write handle of each field
    newErr,    \* the err result of NewReadIter
    read,      \* what the most recent Reader.Read() call returned
    reads,     \* how many times Reader.Read() has been called
    ret,       \* the result of the most recent Get call
    stopAt,    \* the field index at which the most recent Get left its loop
               \* early (0: it did not)
    setRes     \* per field, what Value.Set returned in the most recent Get

vars == <<pc, decl, rec, Headers, Error, Line, Column, kinds, tags, fields,
          newErr, read, reads, ret, stopAt, setRes>>

-----------------------------------------------------------------------------
(* Bounds of the model *)

\* Get is not called once Line has reached MaxLine
MaxLine == 3

-----------------------------------------------------------------------------
(* Decode kinds *)

none_k == 0
string_k == 1
int_k == 2
float_k == 3
uint_k == 4
value_k == 5

-----------------------------------------------------------------------------
(* Errors *)

nil == "nil"
EOF == "EOF"
\* some fault of the row source other than io.EOF
ErrIO == "ErrIO"
\* strconv.ErrSyntax, as wrapped in the *strconv.NumError of a failed parse
ErrSyntax == "ErrSyntax"
ErrNotValue == "Not a Value object"
ErrCannotConvert == "cannot convert this type "

-----------------------------------------------------------------------------
(* Texts *)

\* unicode simple case folding, on the letters the model uses
Lower(c) ==
    CASE c = "A" -> "a"
      [] c = "B" -> "b"
      [] c = "Z" -> "z"
      [] OTHER -> c

\* strings.EqualFold(s, t)
EqualFold(s, t) ==
    /\ Len(s) = Len(t)
    /\ \A i \in 1..Len(s) : Lower(s[i]) = Lower(t[i])

\* strings.Contains(s, c) for a one-character c
Contains(s, c) == \E i \in 1..Len(s) : s[i] = c

RECURSIVE Replace(_, _, _)
\* strings.Replace(s, old, new, -1) for one-character old and new
Replace(s, old, new) ==
    IF s = <<>> THEN <<>>
    ELSE <<IF Head(s) = old THEN new ELSE Head(s)>> \o Replace(Tail(s), old, new)

IsDigit(c) == c \in {"0", "1", "2", "3", "4", "5", "6", "7", "8", "9"}

DigitVal(c) ==
    CASE c = "0" -> 0 [] c = "1" -> 1 [] c = "2" -> 2 [] c = "3" -> 3
      [] c = "4" -> 4 [] c = "5" -> 5 [] c = "6" -> 6 [] c = "7" -> 7
      [] c = "8" -> 8 [] c = "9" -> 9

-----------------------------------------------------------------------------
(* strconv.  Every text of the model has fewer than ten digits, so a parsed  *)
(* number always fits in 64 bits and the parsers' ErrRange results (a        *)
(* number beyond 64 bits) do not arise; what is modelled is the syntax       *)
(* check and the value.  A parse result is [val, err].                       *)

RECURSIVE ParseDigits(_, _)
\* the digit loop of strconv.ParseUint: [val, err] of the digits of s after
\* the accumulated value n
ParseDigits(s, n) ==
    IF s = <<>> THEN [val |-> n, err |-> nil]
    ELSE IF ~IsDigit(Head(s)) THEN [val |-> 0, err |-> ErrSyntax]
    ELSE ParseDigits(Tail(s), n * 10 + DigitVal(Head(s)))

\* strconv.ParseUint(s, 10, 0)
ParseUint(s) ==
    IF s = <<>> THEN [val |-> 0, err |-> ErrSyntax]
    ELSE ParseDigits(s, 0)

\* strconv.ParseInt(s, 10, 0)
ParseInt(s) ==
    IF s = <<>> THEN [val |-> 0, err |-> ErrSyntax]
    ELSE LET neg == Head(s) = "-"
             body == IF Head(s) \in {"+", "-"} THEN Tail(s) ELSE s
             un == ParseUint(body)
         IN  IF un.err # nil THEN [val |-> 0, err |-> un.err]
             ELSE [val |-> IF neg THEN 0 - un.val ELSE un.val, err |-> nil]

RECURSIVE TrimZeros(_, _)
\* a decimal m / 10^e without trailing zeros in its fraction
TrimZeros(m, e) ==
    IF e > 0 /\ m % 10 = 0 THEN TrimZeros(m \div 10, e - 1) ELSE [m |-> m, e |-> e]

\* the index of the first "." of s, or 0
DotAt(s) ==
    IF Contains(s, ".") THEN CHOOSE i \in 1..Len(s) :
                                 s[i] = "." /\ \A j \in 1..(i - 1) : s[j] # "."
    ELSE 0

\* strconv.ParseFloat(s, 0) on texts made of a sign, decimal digits and a
\* point (no exponent, no hexadecimal form, no "inf" or "nan"); the value is
\* the decimal val / 10^exp
ParseFloat(s) ==
    LET bad == [val |-> 0, exp |-> 0, err |-> ErrSyntax]
        neg == s # <<>> /\ Head(s) = "-"
        body == IF s # <<>> /\ Head(s) \in {"+", "-"} THEN Tail(s) ELSE s
        dot == DotAt(body)
        ip == IF dot = 0 THEN body ELSE SubSeq(body, 1, dot - 1)
        fp == IF dot = 0 THEN <<>> ELSE SubSeq(body, dot + 1, Len(body))
        digits == ParseDigits(ip \o fp, 0)
    IN  IF ip \o fp = <<>> \/ digits.err # nil THEN bad
        ELSE LET d == TrimZeros(digits.val, Len(fp))
             IN  [val |-> IF neg THEN 0 - d.m ELSE d.m, exp |-> d.e, err |-> nil]

-----------------------------------------------------------------------------
(* Values of struct fields.  Every value is a record [t, n, e, s]: t the    *)
(* representation, n a number, e the decimal exponent of a float, s a text. *)

StrV(s) == [t |-> "string", n |-> 0, e |-> 0, s |-> s]
IntV(n) == [t |-> "int", n |-> n, e |-> 0, s |-> <<>>]
UintV(n) == [t |-> "uint", n |-> n, e |-> 0, s |-> <<>>]
FloatV(m, e) == [t |-> "float", n |-> m, e |-> e, s |-> <<>>]
\* a value of another type (a struct, a bool, an interface); s is what the
\* last accepted Value.Set gave it
OtherV(s) == [t |-> "other", n |-> 0, e |-> 0, s |-> s]

Pow2(w) == IF w = 8 THEN 256 ELSE 65536

\* the conversion intN(x) of Go, which reflect.Value.SetInt applies for a
\* field of N bits: x modulo 2^N, in -2^(N-1) .. 2^(N-1)-1.  Model numbers
\* stay below 2^31, so N = 32 and N = 64 leave x as it is.
WrapInt(bits, x) ==
    IF bits >= 32 THEN x
    ELSE ((x + Pow2(bits) \div 2) % Pow2(bits)) - Pow2(bits) \div 2

\* the conversion uintN(x) of Go, which reflect.Value.SetUint applies
WrapUint(bits, x) == IF bits >= 32 THEN x ELSE x % Pow2(bits)

-----------------------------------------------------------------------------
(* Struct types.  A field type is [Kind, bits, ptrValue, selfValue]:        *)
(* reflect's Kind, the width of a number, whether the pointer to the type   *)
(* implements Value, and whether the field's own value does (an interface   *)
(* field holding a Value).                                                  *)

Ty(k, b, p, v) == [Kind |-> k, bits |-> b, ptrValue |-> p, selfValue |-> v]

TString == Ty("String", 0, FALSE, FALSE)
TInt == Ty("Int", 64, FALSE, FALSE)
TInt8 == Ty("Int8", 8, FALSE, FALSE)
TInt16 == Ty("Int16", 16, FALSE, FALSE)
TUint == Ty("Uint", 64, FALSE, FALSE)
TUint8 == Ty("Uint8", 8, FALSE, FALSE)
TFloat64 == Ty("Float64", 64, FALSE, FALSE)
TBool == Ty("Bool", 0, FALSE, FALSE)
\* a struct type with String and Set on its pointer receiver
TCustom == Ty("Struct", 0, TRUE, FALSE)
\* a type derived from int with String and Set on its pointer receiver
TCustomInt == Ty("Int", 64, TRUE, FALSE)
\* a field of interface type Value holding a non-nil Value
TIface == Ty("Interface", 0, FALSE, TRUE)

IntKinds == {"Int", "Int8", "Int16", "Int32", "Int64"}
UintKinds == {"Uint", "Uint8", "Uint16", "Uint32", "Uint64"}
FloatKinds == {"Float32", "Float64"}

\* a declared field: its name, its `field:"..."` tag ("" when it has none)
\* and its type
F(name, tag, type) == [name |-> name, tag |-> tag, type |-> type]

\* the struct types of the model; every field is exported, as reflect
\* requires of a field that is to be set
Structs ==
    { << F(<<"A">>, <<>>, TString), F(<<"B">>, <<>>, TInt8) >>,
      << F(<<"A">>, <<>>, TInt16), F(<<"B">>, <<>>, TUint8) >>,
      << F(<<"Z">>, <<>>, TInt), F(<<"B">>, <<>>, TFloat64) >>,
      << F(<<"A">>, <<"B">>, TUint), F(<<"B">>, <<"A">>, TString) >>,
      << F(<<"A", "_", "B">>, <<>>, TInt), F(<<"a">>, <<>>, TCustom) >>,
      << F(<<"A">>, <<>>, TBool), F(<<"B">>, <<>>, TString) >>,
      << F(<<"B">>, <<>>, TCustomInt), F(<<"A">>, <<>>, TInt8) >>,
      << F(<<"A", "_", "B">>, <<"A", "_", "B">>, TString), F(<<"Z">>, <<>>, TBool) >>,
      << F(<<"A">>, <<>>, TIface), F(<<"B">>, <<>>, TUint8) >> }

\* the zero value of a type
ZeroOf(type) ==
    CASE type.Kind = "String" -> StrV(<<>>)
      [] type.Kind \in IntKinds -> IntV(0)
      [] type.Kind \in UintKinds -> UintV(0)
      [] type.Kind \in FloatKinds -> FloatV(0, 0)
      [] OTHER -> OtherV(<<>>)

\* a value the caller may have put in a field before the session starts
PresetOf(type) ==
    CASE type.Kind = "String" -> StrV(<<"p">>)
      [] type.Kind \in IntKinds -> IntV(5)
      [] type.Kind \in UintKinds -> UintV(5)
      [] type.Kind \in FloatKinds -> FloatV(25, 1)
      [] OTHER -> OtherV(<<"p">>)

-----------------------------------------------------------------------------
(* The row source *)

\* the texts a cell of a data row may hold
Texts == { <<>>, <<"7">>, <<"-", "1">>, <<"3", "0", "0">>, <<"x">>,
           <<"1", ".", "5">> }

\* the header rows of the model
HeaderRows ==
    { << <<"A">>, <<"B">> >>,
      << <<"a", " ", "b">>, <<"A", " ", "B">> >>,
      << <<"b">>, <<"B">> >>,
      << <<"A", "_", "B">>, <<"a">> >>,
      << <<"B">> >> }

\* the data rows: every sequence of texts no wider than the widest header
\* (Get reads no column beyond the header's), the empty row included
Rows ==
    UNION { [1..n -> Texts] : n \in 0..Len(CHOOSE h \in HeaderRows :
                                              \A g \in HeaderRows : Len(g) <= Len(h)) }

\* a result of Reader.Read(): a row with a nil error, or no row with an error
ReadOK(row) == [row |-> row, err |-> nil]
ReadErr(err) == [row |-> <<>>, err |-> err]

ReadResults(rows) ==
    { ReadOK(r) : r \in rows } \cup { ReadErr(EOF), ReadErr(ErrIO) }

-----------------------------------------------------------------------------
(* NewReadIter *)

\* the header name a declared field is looked up by
LookupKey(f) ==
    IF Len(f.tag) = 0
    THEN IF Contains(f.name, "_") THEN Replace(f.name, "_", " ") ELSE f.name
    ELSE f.tag

RECURSIVE ScanHeaders(_, _, _)
\* the header loop from index k on: the first index whose header equals tag
\* under case folding, or -1
ScanHeaders(hdrs, tag, k) ==
    IF k >= Len(hdrs) THEN -1
    ELSE IF EqualFold(hdrs[k + 1], tag) THEN k
    ELSE ScanHeaders(hdrs, tag, k + 1)

\* FindHeader without the `break`: the last matching index
FindHeaderLast(hdrs, tag) ==
    LET M == { k \in 0..(Len(hdrs) - 1) : EqualFold(hdrs[k + 1], tag) }
    IN  IF M = {} THEN -1 ELSE CHOOSE k \in M : \A m \in M : m <= k

\* itag of a lookup key
FindHeader(hdrs, tag) == ScanHeaders(hdrs, tag, 0)

\* SkipField without the `continue`: every field is classified
NeverSkip(itag) == FALSE

\* whether the field loop leaves a field out (the `continue`)
SkipField(itag) == itag = -1

\* the decode kind and write handle of a field type, or the error that ends
\* NewReadIter.  The handle is "addr" (the pointer to the field) or "val"
\* (the field).
Classify(type) ==
    IF type.ptrValue THEN [kind |-> value_k, handle |-> "addr", err |-> nil]
    ELSE CASE type.Kind \in IntKinds -> [kind |-> int_k, handle |-> "val", err |-> nil]
           [] type.Kind \in UintKinds -> [kind |-> uint_k, handle |-> "val", err |-> nil]
           [] type.Kind \in FloatKinds -> [kind |-> float_k, handle |-> "val", err |-> nil]
           [] type.Kind = "String" -> [kind |-> string_k, handle |-> "val", err |-> nil]
           [] OTHER -> IF type.selfValue
                       THEN [kind |-> value_k, handle |-> "val", err |-> nil]
                       ELSE [kind |-> none_k, handle |-> "zero", err |-> ErrCannotConvert]

\* kinds, tags and fields as make() leaves them for nf fields; "zero" is the
\* zero reflect.Value
EmptyPlan(nf) ==
    [kinds |-> [i \in 1..nf |-> none_k],
     tags |-> [i \in 1..nf |-> 0],
     fields |-> [i \in 1..nf |-> "zero"],
     err |-> nil]

RECURSIVE PlanFrom(_, _, _, _)
\* the field loop of NewReadIter from field i on; plan.err # nil when the
\* loop returned with an error
PlanFrom(i, flds, hdrs, plan) ==
    IF i > Len(flds) THEN plan
    ELSE LET itag == FindHeader(hdrs, LookupKey(flds[i]))
             c == Classify(flds[i].type)
         IN  IF SkipField(itag) THEN PlanFrom(i + 1, flds, hdrs, plan)
             ELSE IF c.err # nil THEN [plan EXCEPT !.err = c.err]
             ELSE PlanFrom(i + 1, flds, hdrs,
                           [plan EXCEPT !.kinds[i] = c.kind,
                                        !.tags[i] = itag,
                                        !.fields[i] = c.handle])

\* Line of a ReadIter that NewReadIter returns
FirstLine == 1

NewReadIter ==
    /\ pc = "start"
    /\ \E res \in ReadResults(HeaderRows) :
         LET plan == PlanFrom(1, decl, res.row, EmptyPlan(Len(decl)))
             err == IF res.err # nil THEN res.err ELSE plan.err
         IN  /\ read' = res
             /\ reads' = reads + 1
             /\ newErr' = err
             /\ IF err # nil
                THEN /\ pc' = "failed"
                     /\ UNCHANGED <<Headers, Line, kinds, tags, fields>>
                ELSE /\ pc' = "ready"
                     /\ Headers' = res.row
                     /\ Line' = FirstLine
                     /\ kinds' = plan.kinds
                     /\ tags' = plan.tags
                     /\ fields' = plan.fields
    /\ setRes' = [i \in 1..Len(decl) |-> "none"]
    /\ UNCHANGED <<decl, rec, Error, Column, ret, stopAt>>

-----------------------------------------------------------------------------
(* Get *)

\* ReadFault without the io.EOF test
ReadFaultAny(err, old) == err

\* Error after a Read that returned the error err
ReadFault(err, old) == IF err # EOF THEN err ELSE old

\* EmptyAsZero without the empty-text rule
EmptyAsIs(vals) == vals

\* the text a signed integer is parsed from
EmptyAsZero(vals) == IF vals = <<>> THEN <<"0">> ELSE vals

\* ColumnOf without the + 1
ColumnOfIndex(ci) == ci

\* Column of a failure at column index ci
ColumnOf(ci) == ci + 1

\* whether the write handle of field fi holds a Value (f.Interface().(Value))
IsValue(fi) ==
    \/ fields[fi] = "addr" /\ decl[fi].type.ptrValue
    \/ fields[fi] = "val" /\ decl[fi].type.selfValue

\* one pass of the switch on kinds[fi]: the loop state after converting the
\* text vals into field fi.  ok is what Value.Set answers if it is called;
\* a Set that answers false leaves its receiver as it was.
Convert(fi, vals, ok, st) ==
    LET bits == decl[fi].type.bits
        k == kinds[fi]
    IN  CASE k = string_k -> [st EXCEPT !.rec[fi] = StrV(vals)]
          [] k = int_k ->
               LET p == ParseInt(EmptyAsZero(vals))
               IN  [st EXCEPT !.rec[fi] = IntV(WrapInt(bits, p.val)), !.err = p.err]
          [] k = uint_k ->
               LET p == ParseUint(vals)
               IN  [st EXCEPT !.rec[fi] = UintV(WrapUint(bits, p.val)), !.err = p.err]
          [] k = float_k ->
               LET p == ParseFloat(vals)
               IN  [st EXCEPT !.rec[fi] = FloatV(p.val, p.exp), !.err = p.err]
          [] k = value_k ->
               IF ~IsValue(fi) THEN [st EXCEPT !.err = ErrNotValue]
               ELSE IF ok THEN [st EXCEPT !.rec[fi].s = vals, !.setRes[fi] = "ok"]
               ELSE [st EXCEPT !.setRes[fi] = "rejected"]
          [] OTHER -> st

RECURSIVE DecodeFrom(_, _, _, _)
\* the loop `for fi, ci := range this.tags` from field fi on.  Indexing row
\* beyond its length is a run-time panic, which leaves the loop with what
\* has been written so far.
DecodeFrom(fi, row, accept, st) ==
    IF fi > Len(tags) THEN [st EXCEPT !.ret = "true"]
    ELSE LET ci == tags[fi]
         IN  IF ci >= Len(row) THEN [st EXCEPT !.ret = "panic", !.stopAt = fi]
             ELSE LET s1 == Convert(fi, row[ci + 1], accept[fi], st)
                  IN  IF s1.err # nil
                      THEN [s1 EXCEPT !.Column = ColumnOf(ci), !.Error = s1.err,
                                      !.ret = "false", !.stopAt = fi]
                      ELSE DecodeFrom(fi + 1, row, accept, s1)

\* what the Value.Set implementations of the fields may answer in one Get:
\* one answer per field that has a Set
SetAnswers ==
    { a \in [1..Len(decl) -> BOOLEAN] : \A i \in 1..Len(decl) : kinds[i] # value_k => a[i] }

Get ==
    /\ pc = "ready"
    /\ Line < MaxLine
    /\ \E res \in ReadResults(Rows) :
         /\ read' = res
         /\ reads' = reads + 1
         /\ Line' = Line + 1
         /\ IF res.err # nil
            THEN /\ Error' = ReadFault(res.err, Error)
                 /\ ret' = "false"
                 /\ stopAt' = 0
                 /\ setRes' = [i \in 1..Len(decl) |-> "none"]
                 /\ UNCHANGED <<pc, rec, Column>>
            ELSE \E accept \in SetAnswers :
                   LET st == DecodeFrom(1, res.row, accept,
                                 [rec |-> rec, err |-> nil, Column |-> Column,
                                  Error |-> Error, ret |-> "none", stopAt |-> 0,
                                  setRes |-> [i \in 1..Len(decl) |-> "none"]])
                   IN  /\ rec' = st.rec
                       /\ Column' = st.Column
                       /\ Error' = st.Error
                       /\ ret' = st.ret
                       /\ stopAt' = st.stopAt
                       /\ setRes' = st.setRes
                       /\ pc' = IF st.ret = "panic" THEN "panicked" ELSE "ready"
    /\ UNCHANGED <<decl, Headers, kinds, tags, fields, newErr>>

-----------------------------------------------------------------------------
(* The program: a caller constructs a session over a struct and a row       *)
(* source, then calls Get repeatedly.                                       *)

Init ==
    /\ pc = "start"
    /\ decl \in Structs
    /\ rec \in { [i \in 1..Len(decl) |-> ZeroOf(decl[i].type)],
                 [i \in 1..Len(decl) |-> PresetOf(decl[i].type)] }
    /\ Headers = <<>>
    /\ Error = nil
    /\ Line = 0
    /\ Column = 0
    /\ kinds = <<>>
    /\ tags = <<>>
    /\ fields = <<>>
    /\ newErr = nil
    /\ read = ReadOK(<<>>)
    /\ reads = 0
    /\ ret = "none"
    /\ stopAt = 0
    /\ setRes = <<>>

Next == NewReadIter \/ Get

Spec == Init /\ [][Next]_vars

-----------------------------------------------------------------------------
(* What the properties are stated with *)

\* a step of Get
GetStep == pc = "ready" /\ reads' # reads

\* a step of Get whose Read returned a row
RowStep == GetStep /\ read'.err = nil

\* the lookup key of a declared field: its tag if it has one, else its name
\* with a space for every underscore
KeyOf(f) ==
    IF f.tag # <<>> THEN f.tag
    ELSE [j \in 1..Len(f.name) |-> IF f.name[j] = "_" THEN " " ELSE f.name[j]]

\* the indices (0-based) of the headers of hdrs that equal the key of f
\* case-insensitively
MatchesOf(f, hdrs) ==
    { k \in 0..(Len(hdrs) - 1) : EqualFold(hdrs[k + 1], KeyOf(f)) }

\* a type with neither a primitive decode kind nor the Value capability
Unclassifiable(type) ==
    /\ ~type.ptrValue
    /\ ~type.selfValue
    /\ type.Kind \notin IntKinds \cup UintKinds \cup FloatKinds \cup {"String"}

\* field i is in the plan
Bound(i) == kinds[i] # none_k

IsUnsigned(t) == Len(t) >= 1 /\ \A j \in 1..Len(t) : IsDigit(t[j])

IsSigned(t) ==
    /\ Len(t) >= 1
    /\ IsUnsigned(IF t[1] \in {"+", "-"} THEN Tail(t) ELSE t)

IsDecimal(t) ==
    LET b == IF Len(t) >= 1 /\ t[1] \in {"+", "-"} THEN Tail(t) ELSE t
    IN  /\ \E j \in 1..Len(b) : IsDigit(b[j])
        /\ \A j \in 1..Len(b) : IsDigit(b[j]) \/ b[j] = "."
        /\ Cardinality({ j \in 1..Len(b) : b[j] = "." }) <= 1

\* the text t does not parse for a field of decode kind k
FailsToParse(k, t) ==
    \/ k = int_k /\ t # <<>> /\ ~IsSigned(t)
    \/ k = uint_k /\ ~IsUnsigned(t)
    \/ k = float_k /\ ~IsDecimal(t)

\* the text of row at the column of field i
TextAt(row, i) == row[tags[i] + 1]

-----------------------------------------------------------------------------
(* C1 *)

\* C1: a Get on a healthy session (Error nil) whose Read returns io.EOF
\* returns false and leaves Error nil; one whose Read returns another fault
\* returns false with Error set to that fault; so after a false result Error
\* is nil exactly when the Read returned io.EOF.
C1_ReadOutcome ==
    [][ (GetStep /\ Error = nil) =>
          /\ (read'.err = EOF => ret' = "false" /\ Error' = nil)
          /\ (read'.err \notin {nil, EOF} => ret' = "false" /\ Error' = read'.err)
          /\ (ret' = "false" => (Error' = nil <=> read'.err = EOF)) ]_vars

\* a Get has ended the iteration by end-of-input with Error still nil
C1_Witness ==
    pc = "ready" /\ reads >= 2 /\ read.err = EOF /\ ret = "false" /\ Error = nil

-----------------------------------------------------------------------------
(* C2 *)

\* C2: once a conversion fault is recorded (Column set, Error set), every
\* later Get returns false and decodes no row into the target record.
C2_FaultIsTerminal ==
    [][ (pc = "ready" /\ Column # 0 /\ Error # nil) =>
          (ret' # "true" /\ rec' = rec) ]_vars

-----------------------------------------------------------------------------
(* C3 *)

\* C3: when Get reads a row that has no text at the column of a bound
\* field, every field declared before it being bound to a column the row has
\* and to a text that parses, Get returns false with Error set and Column
\* the 1-based number of the missing column; it does not abort.
C3_ShortRowFault ==
    [][ RowStep =>
          \A i \in 1..Len(decl) :
            (/\ Bound(i)
             /\ tags[i] >= Len(read'.row)
             /\ \A j \in 1..(i - 1) :
                  /\ Bound(j)
                  /\ tags[j] < Len(read'.row)
                  /\ ~FailsToParse(kinds[j], TextAt(read'.row, j))) =>
               /\ pc' = "ready"
               /\ ret' = "false"
               /\ Error' # nil
               /\ Column' = tags[i] + 1 ]_vars

-----------------------------------------------------------------------------
(* C4 *)

\* C4: when Get reads a row as wide as the header in which every text of a
\* number field parses, and the Set of a custom-settable field answers
\* false, no earlier field's Set having done so, Get returns false with
\* Error set and Column the 1-based column of that field.
C4_SetRejected ==
    [][ RowStep =>
          \A i \in 1..Len(decl) :
            (/\ Len(read'.row) = Len(Headers)
             /\ \A j \in 1..Len(decl) :
                  ~FailsToParse(kinds[j], TextAt(read'.row, j))
             /\ setRes'[i] = "rejected"
             /\ \A j \in 1..(i - 1) : setRes'[j] # "rejected") =>
               /\ ret' = "false"
               /\ Error' # nil
               /\ Column' = tags[i] + 1 ]_vars

-----------------------------------------------------------------------------
(* C5 *)

\* field i was converted in the Get that led to the current state
Converted(i) == ret = "true" \/ (ret = "false" /\ i <= stopAt)

\* C5: when Get converts an empty text into a bound signed-integer field,
\* the field becomes 0 and that field reports no error; when it converts an
\* empty text into a bound unsigned-integer or floating-point field, Get
\* returns false with Error set and Column that field's 1-based column.
C5_EmptyText ==
    [][ RowStep =>
          \A i \in 1..Len(decl) :
            (/\ Converted(i)'
             /\ tags[i] < Len(read'.row)
             /\ TextAt(read'.row, i) = <<>>) =>
               /\ (kinds[i] = int_k => rec'[i] = IntV(0) /\ stopAt' # i)
               /\ (kinds[i] \in {uint_k, float_k} =>
                     /\ ret' = "false"
                     /\ Error' # nil
                     /\ Column' = tags[i] + 1
                     /\ stopAt' = i) ]_vars

\* one Get has converted an empty text into a signed field, which is 0 and
\* did not stop the row, and then an empty text into an unsigned or float
\* field, which failed the row at its column
C5_Witness ==
    /\ pc = "ready" /\ reads >= 2 /\ read.err = nil /\ ret = "false"
    /\ \E i, j \in 1..Len(decl) :
         /\ i < j /\ stopAt = j
         /\ kinds[i] = int_k /\ TextAt(read.row, i) = <<>> /\ rec[i] = IntV(0)
         /\ kinds[j] \in {uint_k, float_k} /\ TextAt(read.row, j) = <<>>
         /\ Column = tags[j] + 1 /\ Error # nil

-----------------------------------------------------------------------------
(* C6 *)

\* C6: in a constructed session every declared field is resolved by its
\* lookup key (the tag verbatim if there is one, else the name with spaces
\* for underscores): it is in the plan exactly if some header equals the key
\* case-insensitively, and then at the smallest such index; a field with a
\* tag is never bound by its name.
C6_Resolution ==
    pc = "ready" =>
      \A i \in 1..Len(decl) :
        LET M == MatchesOf(decl[i], Headers)
        IN  /\ (M = {} => ~Bound(i))
            /\ (M # {} => Bound(i) /\ tags[i] \in M /\ \A k \in M : tags[i] <= k)
            /\ (Bound(i) /\ decl[i].tag # <<>> =>
                  EqualFold(Headers[tags[i] + 1], decl[i].tag))

\* a session in which a field with a tag is bound to the column of its tag
\* while its name matches another column
C6_Witness ==
    /\ pc = "ready"
    /\ \E i \in 1..Len(decl) :
         /\ decl[i].tag # <<>>
         /\ Bound(i)
         /\ \E k \in 0..(Len(Headers) - 1) :
              k # tags[i] /\ EqualFold(Headers[k + 1], decl[i].name)

-----------------------------------------------------------------------------
(* C7 *)

\* C7: a declared field that matched no header keeps its value over every
\* Get, and no Get stops (fails or aborts) at it.
C7_UnmatchedUntouched ==
    [][ GetStep =>
          \A i \in 1..Len(decl) :
            MatchesOf(decl[i], Headers) = {} =>
              (rec'[i] = rec[i] /\ stopAt' # i) ]_vars

-----------------------------------------------------------------------------
(* C8 *)

\* C8: after a Get that returned true, every planned string field holds the
\* row's text at its column and every planned signed or unsigned integer
\* field holds the base-10 number that text denotes (0 for an empty text of
\* a signed field).
C8_ExactValue ==
    (pc = "ready" /\ reads >= 2 /\ ret = "true") =>
      \A i \in 1..Len(decl) :
        LET t == TextAt(read.row, i)
        IN  /\ (kinds[i] = string_k => rec[i] = StrV(t))
            /\ (kinds[i] = int_k =>
                  IF t = <<>> THEN rec[i] = IntV(0)
                  ELSE IsSigned(t) /\ rec[i] = IntV(ParseInt(t).val))
            /\ (kinds[i] = uint_k =>
                  IsUnsigned(t) /\ rec[i] = UintV(ParseUint(t).val))

-----------------------------------------------------------------------------
(* C9 *)

-----------------------------------------------------------------------------
(* C10 *)

\* C10: a Get that returns true found no bound field whose text fails to
\* parse; a Get that returns false on a row it read stopped at the first
\* bound field, in declaration order, whose text fails to parse, with Error
\* the parse error, Column 1 + that field's column index, every earlier
\* bound field written and every later field as it was before the call; and
\* Column stays 0 until a conversion fails.
C10_FirstFailure ==
    [][ /\ (RowStep /\ ret' = "true") =>
             \A i \in 1..Len(decl) : ~FailsToParse(kinds[i], TextAt(read'.row, i))
        /\ (RowStep /\ ret' = "false") =>
             LET i == stopAt'
                 row == read'.row
             IN  /\ i \in 1..Len(decl)
                 /\ FailsToParse(kinds[i], TextAt(row, i))
                 /\ \A j \in 1..(i - 1) : ~FailsToParse(kinds[j], TextAt(row, j))
                 /\ \A j \in 1..(i - 1) :
                      kinds[j] = string_k => rec'[j] = StrV(TextAt(row, j))
                 /\ \A j \in (i + 1)..Len(decl) : rec'[j] = rec[j]
                 /\ Error' = ErrSyntax
                 /\ Column' = tags[i] + 1
        /\ (Column = 0 /\ ~(RowStep /\ ret' = "false")) => Column' = 0 ]_vars

\* a Get has failed at its first field while a later field is bound: the
\* later field's text parses, and Column is the first field's column
C10_Witness ==
    /\ pc = "ready" /\ reads >= 2 /\ read.err = nil /\ ret = "false"
    /\ stopAt = 1 /\ Len(decl) >= 2 /\ Bound(1) /\ Bound(2)
    /\ tags[2] < Len(read.row)
    /\ ~FailsToParse(kinds[2], TextAt(read.row, 2))
    /\ Column = tags[1] + 1 /\ Error = ErrSyntax

====
